---------------------------- MODULE Spec2Model ----------------------------
(***************************************************************************)
(* A model of rgbfix (src/fix/main.c): the MBC specification parser        *)
(* (parseMBC), the per-file header patcher (processFile, processFilename)  *)
(* and the byte-level I/O loops it relies on (readBytes, writeBytes).      *)
(*                                                                         *)
(* Representation choices:                                                 *)
(*  - a C string is a sequence of one-character strings; reading at or     *)
(*    past its length yields the terminator NUL;                           *)
(*  - a byte array (a file's contents, rom0, romx) is a run list: a        *)
(*    sequence of <<value, end>> pairs, end the offset just past the run,  *)
(*    adjacent runs holding different values, so that equal arrays are     *)
(*    equal values.  Every operation on it (indexing, copying, summing)    *)
(*    is exact; the encoding only keeps a 16 KiB bank, or a 1 GiB file,    *)
(*    small;                                                               *)
(*  - unsigned C integers keep their width: uint8_t arithmetic is taken    *)
(*    modulo 2^8, uint16_t modulo 2^16.  A size_t that wrapped below zero  *)
(*    is written as the negative number congruent to it modulo 2^64.       *)
(***************************************************************************)
EXTENDS Integers, Sequences, FiniteSets, TLC

VARIABLES
    \* the option being parsed (main's getopt loop): getopt's result and its
    \* argument
    ch, optarg,
    \* main's file loop: the file names given, the one argv points to, the
    \* result so far, and the outcomes main has folded into it
    files, argv, failed, seen,
    \* the resolved configuration (file-scope statics, lines 578-598)
    model, fixSpec, gameID, gameIDLen, japanese, newLicensee, newLicenseeLen,
    oldLicensee, cartridgeType, romVersion, padValue, ramSize, sgb, title,
    titleLen,
    \* the error tally (line 555), the last message given to report() and
    \* the C library's errno
    nbErrors, message, errno,
    \* the files: the image as it was given, input == output (in place) or
    \* not, the bytes behind the input descriptor and its offset, the bytes
    \* written to a distinct output
    image, inplace, disk, offset, out,
    \* processFile's arguments and locals
    fileSize, rom0, rom0Len, globalSum, romx, nbBanks, totalRomxLen, len,
    \* the position in main / processFilename / processFile
    pc

optVars  == <<model, fixSpec, gameID, gameIDLen, japanese, newLicensee,
              newLicenseeLen, oldLicensee, romVersion, padValue, ramSize, sgb,
              title, titleLen>>
fileVars == <<image, inplace, disk, offset, out>>
locVars  == <<fileSize, rom0, rom0Len, globalSum, romx, nbBanks, totalRomxLen,
              len>>
mainVars == <<ch, files, argv, failed, seen>>
cfgVars  == <<optarg, optVars, cartridgeType, mainVars>>
vars     == <<cfgVars, nbErrors, message, errno, fileVars,
              locVars, pc>>

----------------------------------------------------------------------------
(* Program constants *)

UNSPECIFIED == 256
BANK_SIZE == 16384
HEADER_SIZE == 336
MAX_BANKS == 65536
UINT8_MAX == 255

\* a null char pointer, a null byte pointer: values no string and no byte
\* array takes
NULL == <<-1>>
NULLBUF == << <<-1, 0>> >>
NUL  == ""

(* enum MbcType *)
ROM == 0
ROM_RAM == 8
ROM_RAM_BATTERY == 9
MBC1 == 1
MBC1_RAM == 2
MBC1_RAM_BATTERY == 3
MBC2 == 5
MBC2_BATTERY == 6
MMM01 == 11
MMM01_RAM == 12
MMM01_RAM_BATTERY == 13
MBC3 == 17
MBC3_TIMER_BATTERY == 15
MBC3_TIMER_RAM_BATTERY == 16
MBC3_RAM == 18
MBC3_RAM_BATTERY == 19
MBC5 == 25
MBC5_RAM == 26
MBC5_RAM_BATTERY == 27
MBC5_RUMBLE == 28
MBC5_RUMBLE_RAM == 29
MBC5_RUMBLE_RAM_BATTERY == 30
MBC6 == 32
MBC7_SENSOR_RUMBLE_RAM_BATTERY == 34
POCKET_CAMERA == 252
BANDAI_TAMA5 == 253
HUC3 == 254
HUC1_RAM_BATTERY == 255
MBC_NONE == 256
MBC_BAD == 257
MBC_WRONG_FEATURES == 258
MBC_BAD_RANGE == 259

(* parseMBC's feature bits *)
RAM == 128
BATTERY == 64
TIMER == 32
RUMBLE == 16
SENSOR == 8

(* fixSpec bits *)
FIX_LOGO == 128
TRASH_LOGO == 64
FIX_HEADER_SUM == 32
TRASH_HEADER_SUM == 16
FIX_GLOBAL_SUM == 8
TRASH_GLOBAL_SUM == 4

(* enum { DMG, BOTH, CGB } *)
DMG == 0
BOTH == 1
CGB == 2

----------------------------------------------------------------------------
(* C integer operators *)

Min(a, b) == IF a < b THEN a ELSE b
Max(a, b) == IF a > b THEN a ELSE b

RECURSIVE BitAnd(_, _)
BitAnd(a, b) ==
    IF a = 0 \/ b = 0 THEN 0
    ELSE (a % 2) * (b % 2) + 2 * BitAnd(a \div 2, b \div 2)

RECURSIVE BitOr(_, _)
BitOr(a, b) ==
    IF a = 0 THEN b
    ELSE IF b = 0 THEN a
    ELSE Max(a % 2, b % 2) + 2 * BitOr(a \div 2, b \div 2)

\* ~x truncated to a uint8_t, to a uint16_t
Not8(x)  == 255 - x
Not16(x) == 65535 - x

\* x & ~m for a uint8_t x
ClearBits(x, m) == x - BitAnd(x, m)

RECURSIVE Pow2(_)
Pow2(k) == IF k = 0 THEN 1 ELSE 2 * Pow2(k - 1)

\* __builtin_clz on a non-zero 32-bit value: the number of leading zero bits
RECURSIVE BitLen(_)
BitLen(x) == IF x = 0 THEN 0 ELSE 1 + BitLen(x \div 2)
clz(x) == 32 - BitLen(x)

\* __builtin_ctz on a non-zero value: the number of trailing zero bits
RECURSIVE ctz(_)
ctz(x) == IF x % 2 = 1 THEN 0 ELSE 1 + ctz(x \div 2)

----------------------------------------------------------------------------
(* Byte arrays as run lists: <<value, end>> pairs, end the offset just past *)
(* the run, adjacent runs holding different values                          *)

Fill(v, n) == IF n <= 0 THEN <<>> ELSE << <<v, n>> >>

Size(a) == IF a = <<>> THEN 0 ELSE a[Len(a)][2]

\* the index of the run that holds offset i, for i < Size(a)
RunOf(a, i) ==
    CHOOSE k \in DOMAIN a : i < a[k][2] /\ (k = 1 \/ a[k - 1][2] <= i)

\* a[i], 0-based, for i < Size(a)
At(a, i) == a[RunOf(a, i)][1]

Cat(a, b) ==
    IF a = <<>> THEN b
    ELSE IF b = <<>> THEN a
    ELSE LET moved == [j \in 1 .. Len(b) |-> <<b[j][1], b[j][2] + Size(a)>>]
         IN IF a[Len(a)][1] = b[1][1]
            THEN SubSeq(a, 1, Len(a) - 1) \o moved
            ELSE a \o moved

\* the first n bytes of a (all of a when it is shorter)
Take(a, n) ==
    IF n <= 0 THEN <<>>
    ELSE IF n >= Size(a) THEN a
    ELSE LET k == RunOf(a, n - 1)
         IN SubSeq(a, 1, k - 1) \o << <<a[k][1], n>> >>

\* a without its first n bytes
Drop(a, n) ==
    IF n <= 0 THEN a
    ELSE IF n >= Size(a) THEN <<>>
    ELSE LET k == RunOf(a, n)
         IN [j \in 1 .. (Len(a) - k + 1) |->
                <<a[k + j - 1][1], a[k + j - 1][2] - n>>]

Slice(a, from, n) == Take(Drop(a, from), n)

\* the bytes of a sequence of byte values
Bytes(s) ==
    LET starts == {i \in DOMAIN s : i = 1 \/ s[i] # s[i - 1]}
        nth(k) == CHOOSE i \in starts : Cardinality({j \in starts : j <= i}) = k
        runs   == Cardinality(starts)
    IN [k \in 1 .. runs |->
           <<s[nth(k)], IF k = runs THEN Len(s) ELSE nth(k + 1) - 1>>]

\* memcpy(&a[at], b, Size(b)); a write at an offset of a file extends it
Overwrite(a, at, b) == Cat(Cat(Take(a, at), b), Drop(a, at + Size(b)))

SetByte(a, at, v) == Overwrite(a, at, Fill(v, 1))

\* the sum of the bytes of a, modulo 2^16 (uint16_t accumulation)
RECURSIVE SumRuns(_, _)
SumRuns(a, k) ==
    IF k = 0 THEN 0
    ELSE LET from == IF k = 1 THEN 0 ELSE a[k - 1][2]
         IN (SumRuns(a, k - 1) + a[k][1] * ((a[k][2] - from) % 65536)) % 65536
Sum16(a) == SumRuns(a, Len(a))

----------------------------------------------------------------------------
(* C strings and characters *)

TAB == "\t"
Lower == <<"a", "b", "c", "d", "e", "f", "g", "h", "i", "j", "k", "l", "m",
           "n", "o", "p", "q", "r", "s", "t", "u", "v", "w", "x", "y", "z">>
Upper == <<"A", "B", "C", "D", "E", "F", "G", "H", "I", "J", "K", "L", "M",
           "N", "O", "P", "Q", "R", "S", "T", "U", "V", "W", "X", "Y", "Z">>
Digits == <<"0", "1", "2", "3", "4", "5", "6", "7", "8", "9">>

Range(s) == {s[i] : i \in DOMAIN s}
IndexOf(s, c) == CHOOSE i \in DOMAIN s : s[i] = c

\* c >= 'a' && c <= 'z';  c - 'a' + 'A'
IsLower(c) == c \in Range(Lower)
ToUpper(c) == Upper[IndexOf(Lower, c)]
\* c >= '0' && c <= '9'
IsDigit(c) == c \in Range(Digits)

\* name[ptr], 0-based: the terminator at the string's length
Ch(name, ptr) == IF ptr < Len(name) THEN name[ptr + 1] ELSE NUL

\* the value of c as a digit of the given base, or -1
DigitValue(c, base) ==
    LET v == IF IsDigit(c) THEN IndexOf(Digits, c) - 1
             ELSE IF c \in Range(Upper) /\ IndexOf(Upper, c) <= 6
                  THEN 9 + IndexOf(Upper, c)
             ELSE IF c \in Range(Lower) /\ IndexOf(Lower, c) <= 6
                  THEN 9 + IndexOf(Lower, c)
             ELSE -1
    IN IF v < base THEN v ELSE -1

\* Values above this stand for any larger unsigned long (ULONG_MAX on
\* overflow included): parseMBC only tests the result against 0xFF.
HugeValue == 65535

\* strtoul's digit loop: [val, end] with end the index of the first
\* character that is not a digit of the base
RECURSIVE StrtoulDigits(_, _, _, _)
StrtoulDigits(name, ptr, base, acc) ==
    LET d == DigitValue(Ch(name, ptr), base)
    IN IF d = -1 THEN [val |-> acc, end |-> ptr]
       ELSE StrtoulDigits(name, ptr + 1, base, Min(acc * base + d, HugeValue))

\* strtoul(name, &endptr, 0) on a string whose first character is a digit:
\* "0x"/"0X" followed by a hexadecimal digit selects base 16, another leading
\* "0" base 8, anything else base 10
strtoul0(name) ==
    IF Ch(name, 0) = "0" /\ Ch(name, 1) \in {"x", "X"}
       /\ DigitValue(Ch(name, 2), 16) # -1
    THEN StrtoulDigits(name, 2, 16, 0)
    ELSE IF Ch(name, 0) = "0" THEN StrtoulDigits(name, 0, 8, 0)
    ELSE StrtoulDigits(name, 0, 10, 0)

----------------------------------------------------------------------------
(* readMBCSlice, parseMBC, mbcName *)

\* readMBCSlice(&ptr, expected): [ok, ptr]
RECURSIVE readMBCSlice(_, _, _)
readMBCSlice(name, ptr, expected) ==
    IF expected = <<>> THEN [ok |-> TRUE, ptr |-> ptr]
    ELSE LET c0 == Ch(name, ptr)
             c  == IF IsLower(c0) THEN ToUpper(c0)
                   ELSE IF c0 = "_" THEN " "
                   ELSE c0
         IN IF c0 = NUL THEN [ok |-> FALSE, ptr |-> ptr + 1]
            ELSE IF c # Head(expected) THEN [ok |-> FALSE, ptr |-> ptr + 1]
            ELSE readMBCSlice(name, ptr + 1, Tail(expected))

\* while (*ptr is one of ws) ptr++;
RECURSIVE SkipChars(_, _, _)
SkipChars(name, ptr, ws) ==
    IF Ch(name, ptr) \in ws THEN SkipChars(name, ptr + 1, ws) ELSE ptr

\* tryReadSlice(expected), then mbc = value: [mbc, ptr], MBC_BAD on a mismatch
SliceThen(name, ptr, expected, value) ==
    LET r == readMBCSlice(name, ptr, expected)
    IN [mbc |-> IF r.ok THEN value ELSE MBC_BAD, ptr |-> r.ptr]

\* lines 180-274: the MBC type, read from ptr on: [mbc, ptr]
parseMBCType(name, ptr0) ==
    LET c   == Ch(name, ptr0)
        ptr == ptr0 + 1
        bad == [mbc |-> MBC_BAD, ptr |-> ptr]
    IN CASE c \in {"R", "r"} ->
              LET r == readMBCSlice(name, ptr, <<"O", "M">>)
                  p == SkipChars(name, r.ptr, {" ", TAB, "_"})
              IN IF ~r.ok THEN [mbc |-> MBC_BAD, ptr |-> r.ptr]
                 ELSE IF Ch(name, p) \in {"O", "o"}
                      THEN SliceThen(name, p + 1, <<"N", "L", "Y">>, ROM)
                 ELSE [mbc |-> ROM, ptr |-> p]
         [] c \in {"M", "m"} ->
              LET c1 == Ch(name, ptr)
                  c2 == Ch(name, ptr + 1)
                  c3 == Ch(name, ptr + 2)
              IN CASE c1 \in {"B", "b"} ->
                        IF c2 \notin {"C", "c"}
                        THEN [mbc |-> MBC_BAD, ptr |-> ptr + 2]
                        ELSE [mbc |-> CASE c3 = "1" -> MBC1
                                        [] c3 = "2" -> MBC2
                                        [] c3 = "3" -> MBC3
                                        [] c3 = "5" -> MBC5
                                        [] c3 = "6" -> MBC6
                                        [] c3 = "7" -> MBC7_SENSOR_RUMBLE_RAM_BATTERY
                                        [] OTHER -> MBC_BAD,
                              ptr |-> ptr + 3]
                   [] c1 \in {"M", "m"} ->
                        SliceThen(name, ptr + 1, <<"M", "0", "1">>, MMM01)
                   [] OTHER -> [mbc |-> MBC_BAD, ptr |-> ptr + 1]
         [] c \in {"P", "p"} ->
              SliceThen(name, ptr, <<"O", "C", "K", "E", "T", " ", "C", "A", "M", "E", "R", "A">>,
                        POCKET_CAMERA)
         [] c \in {"B", "b"} ->
              SliceThen(name, ptr, <<"A", "N", "D", "A", "I", " ", "T", "A", "M", "A", "5">>,
                        BANDAI_TAMA5)
         [] c \in {"T", "t"} ->
              SliceThen(name, ptr, <<"A", "M", "A", "5">>, BANDAI_TAMA5)
         [] c \in {"H", "h"} ->
              LET r  == readMBCSlice(name, ptr, <<"U", "C">>)
                  c1 == Ch(name, r.ptr)
              IN IF ~r.ok THEN [mbc |-> MBC_BAD, ptr |-> r.ptr]
                 ELSE [mbc |-> CASE c1 = "1" -> HUC1_RAM_BATTERY
                                 [] c1 = "3" -> HUC3
                                 [] OTHER -> MBC_BAD,
                       ptr |-> r.ptr + 1]
         [] OTHER -> bad

\* lines 299-340: one feature name read from ptr on: [ok, bit, ptr]
readFeature(name, ptr0) ==
    LET c   == Ch(name, ptr0)
        ptr == ptr0 + 1
        slice(expected, bit) ==
            LET r == readMBCSlice(name, ptr, expected)
            IN [ok |-> r.ok, bit |-> bit, ptr |-> r.ptr]
    IN CASE c \in {"B", "b"} -> slice(<<"A", "T", "T", "E", "R", "Y">>, BATTERY)
         [] c \in {"R", "r"} ->
              LET c1 == Ch(name, ptr)
              IN CASE c1 \in {"U", "u"} ->
                        LET r == readMBCSlice(name, ptr + 1, <<"M", "B", "L", "E">>)
                        IN [ok |-> r.ok, bit |-> RUMBLE, ptr |-> r.ptr]
                   [] c1 \in {"A", "a"} ->
                        IF Ch(name, ptr + 1) \notin {"M", "m"}
                        THEN [ok |-> FALSE, bit |-> 0, ptr |-> ptr + 1]
                        ELSE [ok |-> TRUE, bit |-> RAM, ptr |-> ptr + 2]
                   [] OTHER -> [ok |-> FALSE, bit |-> 0, ptr |-> ptr + 1]
         [] c \in {"S", "s"} -> slice(<<"E", "N", "S", "O", "R">>, SENSOR)
         [] c \in {"T", "t"} -> slice(<<"I", "M", "E", "R">>, TIMER)
         [] OTHER -> [ok |-> FALSE, bit |-> 0, ptr |-> ptr]

\* lines 284-341: the "+"-separated features: [ok, features, ptr]
RECURSIVE readFeatures(_, _, _)
readFeatures(name, ptr0, features) ==
    LET ptr == SkipChars(name, ptr0, {" ", TAB, "_"})
    IN IF Ch(name, ptr) = NUL
       THEN [ok |-> TRUE, features |-> features, ptr |-> ptr]
       ELSE IF Ch(name, ptr) # "+"
       THEN [ok |-> FALSE, features |-> features, ptr |-> ptr + 1]
       ELSE LET f == readFeature(name, SkipChars(name, ptr + 1, {" ", TAB, "_"}))
            IN IF ~f.ok THEN [ok |-> FALSE, features |-> features, ptr |-> f.ptr]
               ELSE readFeatures(name, f.ptr, BitOr(features, f.bit))

\* lines 357-363: the RAM / RAM+BATTERY step shared by several types
RamBattery(mbc, features) ==
    IF features = RAM THEN mbc + 1
    ELSE IF features = BitOr(RAM, BATTERY) THEN mbc + 2
    ELSE IF features # 0 THEN MBC_WRONG_FEATURES
    ELSE mbc

\* line 374: the test that selects the timer variants of MBC3
Mbc3TimerTest(features) == BitAnd(features, BitAnd(TIMER, BATTERY)) # 0

\* lines 344-427: the features checked against the type
checkFeatures(mbc, features) ==
    CASE mbc = ROM ->
           IF features = 0 THEN ROM ELSE RamBattery(ROM_RAM - 1, features)
      [] mbc \in {MBC1, MMM01} -> RamBattery(mbc, features)
      [] mbc = MBC2 ->
           IF features = BATTERY THEN MBC2_BATTERY
           ELSE IF features # 0 THEN MBC_WRONG_FEATURES
           ELSE mbc
      [] mbc = MBC3 ->
           IF Mbc3TimerTest(features)
           THEN RamBattery(MBC3_TIMER_BATTERY,
                           ClearBits(features, BitOr(TIMER, BATTERY)))
           ELSE RamBattery(mbc, features)
      [] mbc = MBC5 ->
           IF BitAnd(features, RUMBLE) # 0
           THEN RamBattery(MBC5_RUMBLE, ClearBits(features, RUMBLE))
           ELSE RamBattery(mbc, features)
      [] mbc \in {MBC6, POCKET_CAMERA, BANDAI_TAMA5, HUC3} ->
           IF features # 0 THEN MBC_WRONG_FEATURES ELSE mbc
      [] mbc = MBC7_SENSOR_RUMBLE_RAM_BATTERY ->
           IF features # BitOr(BitOr(SENSOR, RUMBLE), BitOr(RAM, BATTERY))
           THEN MBC_WRONG_FEATURES ELSE mbc
      [] mbc = HUC1_RAM_BATTERY ->
           IF features # BitOr(RAM, BATTERY) THEN MBC_WRONG_FEATURES ELSE mbc
      [] OTHER -> mbc

parseMBC(name) ==
    IF IsDigit(Ch(name, 0))
    THEN LET n == strtoul0(name)
         IN IF Ch(name, n.end) # NUL THEN MBC_BAD
            ELSE IF n.val > 255 THEN MBC_BAD_RANGE
            ELSE n.val
    ELSE LET t == parseMBCType(name, SkipChars(name, 0, {" ", TAB}))
             f == readFeatures(name, t.ptr, 0)
             m == checkFeatures(t.mbc, f.features)
         IN IF t.mbc = MBC_BAD THEN MBC_BAD
            ELSE IF ~f.ok THEN MBC_BAD
            ELSE IF m = MBC_WRONG_FEATURES THEN MBC_WRONG_FEATURES
            ELSE IF Ch(name, SkipChars(name, f.ptr, {" ", TAB})) # NUL
                 THEN MBC_BAD
            ELSE m

MbcTypes ==
    {ROM,
     ROM_RAM,
     ROM_RAM_BATTERY,
     MBC1,
     MBC1_RAM,
     MBC1_RAM_BATTERY,
     MBC2,
     MBC2_BATTERY,
     MMM01,
     MMM01_RAM,
     MMM01_RAM_BATTERY,
     MBC3,
     MBC3_TIMER_BATTERY,
     MBC3_TIMER_RAM_BATTERY,
     MBC3_RAM,
     MBC3_RAM_BATTERY,
     MBC5,
     MBC5_RAM,
     MBC5_RAM_BATTERY,
     MBC5_RUMBLE,
     MBC5_RUMBLE_RAM,
     MBC5_RUMBLE_RAM_BATTERY,
     MBC6,
     MBC7_SENSOR_RUMBLE_RAM_BATTERY,
     POCKET_CAMERA,
     BANDAI_TAMA5,
     HUC3,
     HUC1_RAM_BATTERY}

mbcName(type) ==
    CASE type = ROM ->
           <<"R", "O", "M">>
      [] type = ROM_RAM ->
           <<"R", "O", "M", "+", "R", "A", "M">>
      [] type = ROM_RAM_BATTERY ->
           <<"R", "O", "M", "+", "R", "A", "M", "+", "B", "A", "T", "T", "E", "R", "Y">>
      [] type = MBC1 ->
           <<"M", "B", "C", "1">>
      [] type = MBC1_RAM ->
           <<"M", "B", "C", "1", "+", "R", "A", "M">>
      [] type = MBC1_RAM_BATTERY ->
           <<"M", "B", "C", "1", "+", "R", "A", "M", "+", "B", "A", "T", "T", "E", "R", "Y">>
      [] type = MBC2 ->
           <<"M", "B", "C", "2">>
      [] type = MBC2_BATTERY ->
           <<"M", "B", "C", "2", "+", "B", "A", "T", "T", "E", "R", "Y">>
      [] type = MMM01 ->
           <<"M", "M", "M", "0", "1">>
      [] type = MMM01_RAM ->
           <<"M", "M", "M", "0", "1", "+", "R", "A", "M">>
      [] type = MMM01_RAM_BATTERY ->
           <<"M", "M", "M", "0", "1", "+", "R", "A", "M", "+", "B", "A", "T", "T", "E", "R", "Y">>
      [] type = MBC3 ->
           <<"M", "B", "C", "3">>
      [] type = MBC3_TIMER_BATTERY ->
           <<"M", "B", "C", "3", "+", "T", "I", "M", "E", "R", "+", "B", "A", "T", "T", "E", "R", "Y">>
      [] type = MBC3_TIMER_RAM_BATTERY ->
           <<"M", "B", "C", "3", "+", "T", "I", "M", "E", "R", "+", "R", "A", "M", "+", "B", "A", "T", "T", "E", "R", "Y">>
      [] type = MBC3_RAM ->
           <<"M", "B", "C", "3", "+", "R", "A", "M">>
      [] type = MBC3_RAM_BATTERY ->
           <<"M", "B", "C", "3", "+", "R", "A", "M", "+", "B", "A", "T", "T", "E", "R", "Y">>
      [] type = MBC5 ->
           <<"M", "B", "C", "5">>
      [] type = MBC5_RAM ->
           <<"M", "B", "C", "5", "+", "R", "A", "M">>
      [] type = MBC5_RAM_BATTERY ->
           <<"M", "B", "C", "5", "+", "R", "A", "M", "+", "B", "A", "T", "T", "E", "R", "Y">>
      [] type = MBC5_RUMBLE ->
           <<"M", "B", "C", "5", "+", "R", "U", "M", "B", "L", "E">>
      [] type = MBC5_RUMBLE_RAM ->
           <<"M", "B", "C", "5", "+", "R", "U", "M", "B", "L", "E", "+", "R", "A", "M">>
      [] type = MBC5_RUMBLE_RAM_BATTERY ->
           <<"M", "B", "C", "5", "+", "R", "U", "M", "B", "L", "E", "+", "R", "A", "M", "+", "B", "A", "T", "T", "E", "R", "Y">>
      [] type = MBC6 ->
           <<"M", "B", "C", "6">>
      [] type = MBC7_SENSOR_RUMBLE_RAM_BATTERY ->
           <<"M", "B", "C", "7", "+", "S", "E", "N", "S", "O", "R", "+", "R", "U", "M", "B", "L", "E", "+", "R", "A", "M", "+", "B", "A", "T", "T", "E", "R", "Y">>
      [] type = POCKET_CAMERA ->
           <<"P", "O", "C", "K", "E", "T", " ", "C", "A", "M", "E", "R", "A">>
      [] type = BANDAI_TAMA5 ->
           <<"B", "A", "N", "D", "A", "I", " ", "T", "A", "M", "A", "5">>
      [] type = HUC3 ->
           <<"H", "U", "C", "3">>
      [] type = HUC1_RAM_BATTERY ->
           <<"H", "U", "C", "1", "+", "R", "A", "M", "+", "B", "A", "T", "T", "E", "R", "Y">>

----------------------------------------------------------------------------
(* The -m option (main, lines 1087-1099) on a bounded set of arguments *)

\* a variant whose tally wraps as a uint8_t does
reportWrapping(n) == (n + 1) % (UINT8_MAX + 1)

\* report(): the tally saturates at UINT8_MAX (lines 565-566)
report(n) == IF n # UINT8_MAX THEN n + 1 ELSE n

BaseNames ==
    {<<"R", "O", "M">>,
     <<"R", "O", "M", " ", "O", "N", "L", "Y">>,
     <<"M", "B", "C", "1">>,
     <<"M", "B", "C", "2">>,
     <<"M", "B", "C", "3">>,
     <<"M", "B", "C", "5">>,
     <<"M", "B", "C", "6">>,
     <<"M", "B", "C", "7">>,
     <<"M", "M", "M", "0", "1">>,
     <<"P", "O", "C", "K", "E", "T", " ", "C", "A", "M", "E", "R", "A">>,
     <<"B", "A", "N", "D", "A", "I", " ", "T", "A", "M", "A", "5">>,
     <<"T", "A", "M", "A", "5">>,
     <<"H", "U", "C", "1">>,
     <<"H", "U", "C", "3">>}

FeatureName(bit) ==
    CASE bit = SENSOR -> <<"S", "E", "N", "S", "O", "R">>
      [] bit = TIMER -> <<"T", "I", "M", "E", "R">>
      [] bit = RUMBLE -> <<"R", "U", "M", "B", "L", "E">>
      [] bit = RAM -> <<"R", "A", "M">>
      [] bit = BATTERY -> <<"B", "A", "T", "T", "E", "R", "Y">>

Features == {SENSOR, TIMER, RUMBLE, RAM, BATTERY}
FeatureOrder == <<SENSOR, TIMER, RUMBLE, RAM, BATTERY>>

\* base+FEATURE+..., the features of F in the order of FeatureOrder
RECURSIVE RenderFrom(_, _, _)
RenderFrom(s, F, i) ==
    IF i > Len(FeatureOrder) THEN s
    ELSE IF FeatureOrder[i] \in F
         THEN RenderFrom(s \o <<"+">> \o FeatureName(FeatureOrder[i]), F, i + 1)
         ELSE RenderFrom(s, F, i + 1)
Render(base, F) == RenderFrom(base, F, 1)

ToLower(c) == IF c \in Range(Upper) THEN Lower[IndexOf(Upper, c)] ELSE c
LowerCase(s) == [i \in DOMAIN s |-> ToLower(s[i])]
Underscored(s) == [i \in DOMAIN s |-> IF s[i] = " " THEN "_" ELSE s[i]]
Spaced(s, sep) ==
    IF s = <<>> THEN s
    ELSE LET RECURSIVE go(_)
             go(i) == IF i > Len(s) THEN <<>>
                      ELSE (IF s[i] = "+" THEN <<sep, "+", sep>> ELSE <<s[i]>>)
                           \o go(i + 1)
         IN go(1)

SpellingVariants ==
    {"plain", "lower", "underscored", "lead space", "lead underscore",
     "trail space", "trail underscore", "plus spaced", "plus underscored"}

Spelled(v, s) ==
    CASE v = "plain" -> s
      [] v = "lower" -> LowerCase(s)
      [] v = "underscored" -> Underscored(s)
      [] v = "lead space" -> <<" ">> \o s
      [] v = "lead underscore" -> <<"_">> \o s
      [] v = "trail space" -> s \o <<" ">>
      [] v = "trail underscore" -> s \o <<"_">>
      [] v = "plus spaced" -> Spaced(s, " ")
      [] v = "plus underscored" -> LowerCase(Spaced(s, "_"))

SymbolicArgs ==
    {Spelled(v, Render(b, F)) : v \in SpellingVariants, b \in BaseNames,
                                F \in SUBSET Features}

OtherArgs ==
    {<<>>,
     <<"M", "B", "C">>,
     <<"M", "B", "C", "4">>,
     <<"M", "B">>,
     <<"R", "O">>,
     <<"R", "O", "M", " ", "O", "N", "L", "X">>,
     <<"R", "O", "M", "O", "N", "L", "Y">>,
     <<"M", "B", "C", "1", "+">>,
     <<"M", "B", "C", "1", "+", "R", "A", "X">>,
     <<"M", "B", "C", "1", " ", "R", "A", "M">>,
     <<"M", "B", "C", "1", "+", "R", "A">>,
     <<"M", "B", "C", "5", "+", "R", "U", "M", "B", "L", "E", "+">>,
     <<"H", "U", "C", "2">>,
     <<"H", "U">>,
     <<"X", "Y", "Z">>,
     <<"+", "R", "A", "M">>,
     <<"M", "M", "M", "0", "2">>,
     <<"M", "B", "C", "3", " ", "+", "\t", "T", "I", "M", "E", "R", "+", " ", "b", "a", "t", "t", "e", "r", "y">>,
     <<"\t", "M", "B", "C", "1">>,
     <<"M", "B", "C", "1", "\t">>,
     <<"m", "b", "c", "5", " ", "+", " ", "r", "u", "m", "b", "l", "e", "_", "+", "_", "r", "a", "m">>,
     <<"P", "O", "C", "K", "E", "T", "\t", "C", "A", "M", "E", "R", "A">>,
     <<"B", "A", "N", "D", "A", "I">>,
     <<"M", "B", "C", "1", "+", "R", "A", "M", "+", "R", "A", "M">>,
     <<"M", "B", "C", "1", "+", "B", "A", "T", "T", "E", "R", "Y", "+", "R", "A", "M">>,
     <<"M", "B", "C", "3", "+", "B", "A", "T", "T", "E", "R", "Y", "+", "T", "I", "M", "E", "R", "+", "R", "A", "M">>}

NumericArgs ==
    {<<"0">>,
     <<"1">>,
     <<"9">>,
     <<"1", "5">>,
     <<"1", "6">>,
     <<"2", "5", "5">>,
     <<"2", "5", "6">>,
     <<"3", "0", "0">>,
     <<"9", "9", "9", "9", "9">>,
     <<"0", "x", "0">>,
     <<"0", "x", "1", "0">>,
     <<"0", "x", "F", "F">>,
     <<"0", "X", "f", "f">>,
     <<"0", "x", "1", "0", "0">>,
     <<"0", "x">>,
     <<"0", "x", "G">>,
     <<"0", "1", "0">>,
     <<"0", "3", "7", "7">>,
     <<"0", "4", "0", "0">>,
     <<"0", "8">>,
     <<"1", "2", "a", "b", "c">>,
     <<"2", "5", "6", "x">>,
     <<"3", "+", "R", "A", "M">>,
     <<"1", " ">>,
     <<"0", "x", "1", "F", " ">>,
     <<"7", "_">>}

MbcArgs == SymbolicArgs \cup OtherArgs \cup NumericArgs

----------------------------------------------------------------------------
(* read(2), write(2) and the loops around them *)

\* What one call of read or write does: fail with an errno, or transfer at
\* most max bytes.  A schedule lists what the successive calls of one loop do;
\* once it is used up every further call transfers all it was asked for.
Fails(e)      == [ret |-> -1, errno |-> e, max |-> 0]
Transfers(k)  == [ret |-> 0, errno |-> "none", max |-> k]

\* readBytes(fd, buf, len) on the bytes of file from offset pos on:
\* [ret, buf, pos, errno], buf the bytes stored
RECURSIVE readBytesLoop(_, _, _, _, _, _)
readBytesLoop(file, pos, n, sched, buf, err) ==
    IF n = 0 THEN [ret |-> Size(buf), buf |-> buf, pos |-> pos, errno |-> err]
    ELSE LET call == IF sched = <<>> THEN Transfers(n) ELSE Head(sched)
             rest == IF sched = <<>> THEN <<>> ELSE Tail(sched)
             got  == Min(Min(call.max, n), Size(file) - pos)
         IN IF call.ret = -1 /\ call.errno # "EINTR"
            THEN [ret |-> -1, buf |-> buf, pos |-> pos, errno |-> call.errno]
            ELSE IF call.ret = -1
            THEN readBytesLoop(file, pos, n, rest, buf, call.errno)
            ELSE IF got = 0
            THEN [ret |-> Size(buf), buf |-> buf, pos |-> pos, errno |-> err]
            ELSE readBytesLoop(file, pos + got, n - got, rest,
                               Cat(buf, Slice(file, pos, got)), err)

readBytes(file, pos, n, sched) == readBytesLoop(file, pos, n, sched, <<>>, errno)

\* writeBytes(fd, buf, len) on file at offset pos: [ret, file, pos, errno].
\* Every call is write(fd, buf, len) with the same buf (lines 638-651).
RECURSIVE writeBytesLoop(_, _, _, _, _, _, _)
writeBytesLoop(file, pos, buf, n, sched, total, err) ==
    IF n = 0 THEN [ret |-> total, file |-> file, pos |-> pos, errno |-> err]
    ELSE LET call == IF sched = <<>> THEN Transfers(n) ELSE Head(sched)
             rest == IF sched = <<>> THEN <<>> ELSE Tail(sched)
             put  == Min(call.max, n)
         IN IF call.ret = -1 /\ call.errno # "EINTR"
            THEN [ret |-> -1, file |-> file, pos |-> pos, errno |-> call.errno]
            ELSE IF call.ret = -1
            THEN writeBytesLoop(file, pos, buf, n, rest, total, call.errno)
            ELSE IF put = 0
            THEN [ret |-> total, file |-> file, pos |-> pos, errno |-> err]
            ELSE writeBytesLoop(Overwrite(file, pos, Take(buf, put)), pos + put,
                                buf, n - put, rest, total + put, err)

writeBytes(file, pos, buf, n, sched) ==
    writeBytesLoop(file, pos, buf, n, sched, 0, errno)

----------------------------------------------------------------------------
(* processFile's in-memory steps *)

ninLogo ==
    <<206, 237, 102, 102, 204,  13,   0,  11,
        3, 115,   0, 131,   0,  12,   0,  13,
        0,   8,  17,  31, 136, 137,   0,  14,
      220, 204, 110, 230, 221, 221, 217, 153,
      187, 187, 103,  99, 110,  14, 236, 204,
      221, 220, 153, 159, 187, 185,  51,  62>>

Has(spec, bits) == BitAnd(spec, bits) # 0

\* a variant that lets an image one byte short of the header through
ShorterThanAllButOne(n) == n < HEADER_SIZE - 1

\* lines 676, 945: fewer bytes than the header takes
TooShort(n) == n < HEADER_SIZE

\* lines 683-690
EditLogo(rom) ==
    IF Has(fixSpec, FIX_LOGO + TRASH_LOGO)
    THEN IF Has(fixSpec, FIX_LOGO)
         THEN Overwrite(rom, 260, Bytes(ninLogo))
         ELSE Overwrite(rom, 260, Bytes([i \in DOMAIN ninLogo |-> Not8(ninLogo[i])]))
    ELSE rom

\* memcpy(&rom[at], str, n) for an option string, nothing for NULL
CopyString(rom, at, str, n) ==
    IF str = NULL THEN rom ELSE Overwrite(rom, at, Bytes(SubSeq(str, 1, n)))

\* a variant that writes the byte whether the option was given or not
SetAlways(cond, rom, at, v) == SetByte(rom, at, v)

SetIf(cond, rom, at, v) == IF cond THEN SetByte(rom, at, v) ELSE rom

\* lines 692-721
EditFields(rom) ==
    LET r1 == CopyString(rom, 308, title, titleLen)
        r2 == CopyString(r1, 319, gameID, gameIDLen)
        r3 == SetIf(model # DMG, r2, 323, IF model = BOTH THEN 128 ELSE 192)
        r4 == CopyString(r3, 324, newLicensee, newLicenseeLen)
        r5 == SetIf(sgb, r4, 326, 3)
        r6 == SetIf(cartridgeType < MBC_NONE, r5, 327, cartridgeType)
        r7 == SetIf(ramSize # UNSPECIFIED, r6, 329, ramSize)
        r8 == SetIf(~japanese, r7, 330, 1)
        r9 == SetIf(oldLicensee # UNSPECIFIED, r8, 331, oldLicensee)
    IN SetIf(romVersion # UNSPECIFIED, r9, 332, romVersion)

\* a variant that rounds a power of 2 up as well
NextPowerOfTwo(n) == Pow2(32 - clz(n))

\* lines 807-808: the bank count rounded up to a power of 2
RoundedBanks(n) == IF BitAnd(n, n - 1) # 0 THEN Pow2(32 - clz(n)) ELSE n

\* line 810
RomSizeCode(n) == ctz(n \div 2)

\* a variant that counts bank 0 in the bytes to add
PaddingLenWithRom0(n, romxLen) == n * BANK_SIZE - romxLen

\* lines 812, 894: the bytes to add after ROMX (size_t arithmetic)
PaddingLen(n, romxLen) == (n - 1) * BANK_SIZE - romxLen

\* line 812: what the padding adds to the global checksum
PaddingSum(v, n, romxLen) == (v * (PaddingLen(n, romxLen) % 65536)) % 65536

\* lines 817-820: sum -= rom0[i] + 1 for i in 0x134 .. 0x14C, as a uint8_t
RECURSIVE HeaderSumFrom(_, _, _)
HeaderSumFrom(rom, i, sum) ==
    IF i >= 333 THEN sum
    ELSE HeaderSumFrom(rom, i + 1, (sum - (At(rom, i) + 1)) % 256)
\* a variant that leaves the byte at 0x134 out
HeaderSumFrom135(rom) == HeaderSumFrom(rom, 309, 0)
HeaderSum(rom) == HeaderSumFrom(rom, 308, 0)

\* line 821
StoredHeaderSum(rom) ==
    IF Has(fixSpec, TRASH_HEADER_SUM) THEN Not8(HeaderSum(rom)) ELSE HeaderSum(rom)

\* a variant that sums the stored checksum with the rest
KeepGlobalSum(rom) == rom

\* lines 826-827
ZeroGlobalSum(rom) == SetByte(SetByte(rom, 334, 0), 335, 0)

\* lines 842-845
StoreGlobalSum(rom, sum) ==
    LET s == IF Has(fixSpec, TRASH_GLOBAL_SUM) THEN Not16(sum) ELSE sum
    IN SetByte(SetByte(rom, 334, s \div 256), 335, s % 256)

----------------------------------------------------------------------------
(* Bounds of the model *)

\* the largest number of whole ROMX banks of the images tried in both modes
MaxRomxBanks == 2
\* the number of bytes a partial transfer moves
MaxPartial == 1

\* the longest title, game ID and new licensee given on the command line
MaxTitle == 17
MaxGameID == 5
MaxLicensee == 3

\* the most files given on one command line, and the most -m options read
\* after the ones that came before
MaxFiles == 3
MaxOptions == 3

----------------------------------------------------------------------------
(* The environment of one run *)

\* Every call completes: a regular file or a pipe, no signal, no device error.
Reliable ==
    [sched |-> {<<>>}, seek |-> {"ok"}, alloc |-> {"ok"}, open |-> {"ok"}]

\* What POSIX allows: calls that fail, are interrupted or transfer a part.
Posix ==
    [sched |-> {<<>>, <<Fails("EIO")>>, <<Fails("EINTR")>>, <<Transfers(0)>>,
                <<Transfers(MaxPartial)>>,
                <<Transfers(MaxPartial), Fails("EIO")>>},
     seek  |-> {"ok", "EIO"},
     alloc |-> {"ok", "ENOMEM"},
     open  |-> {"ok", "open", "fstat", "not regular"}]

\* read(2) returns 0 at the end of the file only
ReadScheds(E) ==
    {s \in E.sched : \A i \in DOMAIN s : s[i].ret = -1 \/ s[i].max > 0}

\* the output descriptor's file and offset
Output == IF inplace THEN disk ELSE out
OutPos == IF inplace THEN offset ELSE Size(out)

\* the image the run leaves behind
FinalImage == Output

----------------------------------------------------------------------------
(* processFilename and processFile, one action per step *)

\* lines 916-952: the tally is reset, the file opened and its size checked
Start(E) ==
    /\ pc = "start"
    /\ \E o \in (IF inplace THEN E.open ELSE {"ok"}) :
         LET short == inplace /\ o = "ok" /\ TooShort(Size(disk))
             bad   == o # "ok" \/ short
         IN /\ nbErrors' = IF bad THEN report(0) ELSE 0
            /\ message' = IF short THEN "too short" ELSE IF bad THEN o ELSE "none"
            /\ errno' = IF o \in {"open", "fstat"} THEN "EIO" ELSE errno
            /\ fileSize' = IF inplace /\ ~bad THEN Size(disk) ELSE 0
            /\ pc' = IF bad THEN "done" ELSE "read0"
    /\ UNCHANGED <<cfgVars, fileVars, rom0, rom0Len, globalSum, romx, nbBanks,
                   totalRomxLen, len>>

\* lines 670-680: bank 0 is read
ReadRom0(E) ==
    /\ pc = "read0"
    /\ \E s \in ReadScheds(E) :
         LET r == readBytes(disk, offset, BANK_SIZE, s)
             bad == r.ret = -1 \/ TooShort(r.ret)
         IN /\ offset' = r.pos
            /\ errno' = r.errno
            /\ rom0' = r.buf
            /\ rom0Len' = r.ret
            /\ nbErrors' = IF bad THEN report(nbErrors) ELSE nbErrors
            /\ message' = IF r.ret = -1 THEN "read header"
                          ELSE IF bad THEN "too short" ELSE message
            /\ pc' = IF bad THEN "done" ELSE "edit"
    /\ UNCHANGED <<cfgVars, image, inplace, disk, out, fileSize, globalSum,
                   romx, nbBanks, totalRomxLen, len>>

\* lines 683-721: the requested header fields are written into rom0
EditHeader ==
    /\ pc = "edit"
    /\ rom0' = EditFields(EditLogo(rom0))
    /\ pc' = "romx"
    /\ UNCHANGED <<cfgVars, nbErrors, message, errno, fileVars, fileSize,
                   rom0Len, globalSum, romx, nbBanks, totalRomxLen, len>>

\* lines 727-750: the locals are set; in place, the bank count comes from
\* the file size
HandleRomx ==
    /\ pc = "romx"
    /\ globalSum' = 0
    /\ romx' = NULLBUF
    /\ LET tooBig == inplace /\ fileSize >= MAX_BANKS * BANK_SIZE
       IN /\ nbErrors' = IF tooBig THEN report(nbErrors) ELSE nbErrors
          /\ message' = IF tooBig THEN "too many banks" ELSE message
          /\ nbBanks' = IF inplace /\ ~tooBig
                        THEN (fileSize + (BANK_SIZE - 1)) \div BANK_SIZE
                        ELSE 1
          /\ totalRomxLen' = IF inplace /\ ~tooBig /\ fileSize >= BANK_SIZE
                             THEN fileSize - BANK_SIZE
                             ELSE 0
          /\ pc' = IF tooBig THEN "done"
                   ELSE IF ~inplace /\ rom0Len = BANK_SIZE THEN "readx"
                   ELSE "pad"
    /\ UNCHANGED <<cfgVars, errno, fileVars, fileSize, rom0, rom0Len, len>>

\* lines 752-781: one turn of the loop that buffers ROMX from a pipe
ReadRomxBank(E) ==
    /\ pc = "readx"
    /\ \E a \in E.alloc, s \in ReadScheds(E) :
         LET old     == IF romx = NULLBUF THEN <<>> ELSE romx
             r       == readBytes(disk, offset, BANK_SIZE, s)
             bankLen == r.ret
             buf     == Cat(old, r.buf)
             tooMany == bankLen # 0 /\ nbBanks = MAX_BANKS
             counted == bankLen # 0 /\ ~tooMany
         IN IF a # "ok"
            THEN /\ nbErrors' = report(nbErrors)
                 /\ message' = "realloc"
                 /\ errno' = a
                 /\ pc' = "done"
                 /\ UNCHANGED <<offset, romx, nbBanks, globalSum, totalRomxLen>>
            ELSE /\ offset' = r.pos
                 /\ errno' = r.errno
                 /\ romx' = IF tooMany THEN NULLBUF ELSE buf
                 /\ nbErrors' = IF tooMany THEN report(nbErrors) ELSE nbErrors
                 /\ message' = IF tooMany THEN "too many banks" ELSE message
                 /\ nbBanks' = IF counted THEN nbBanks + 1 ELSE nbBanks
                 /\ globalSum' =
                      IF counted /\ bankLen > 0
                      THEN (globalSum + Sum16(Slice(buf, totalRomxLen, bankLen)))
                           % 65536
                      ELSE globalSum
                 /\ totalRomxLen' = IF counted THEN totalRomxLen + bankLen
                                    ELSE totalRomxLen
                 /\ pc' = IF tooMany THEN "done"
                          ELSE IF bankLen # BANK_SIZE THEN "pad"
                          ELSE "readx"
    /\ UNCHANGED <<cfgVars, image, inplace, disk, out, fileSize, rom0, rom0Len,
                   len>>

\* lines 789-813: with a pad value, bank 0 is filled, the bank count is
\* rounded, the ROM size is written and the padding is added to the checksum
Pad ==
    /\ pc = "pad"
    /\ IF padValue = UNSPECIFIED
       THEN /\ pc' = "hsum"
            /\ UNCHANGED <<rom0, rom0Len, nbBanks, globalSum>>
       ELSE IF nbBanks # 1 /\ rom0Len # BANK_SIZE
       THEN /\ pc' = "abort"
            /\ UNCHANGED <<rom0, rom0Len, nbBanks, globalSum>>
       ELSE LET fill   == nbBanks = 1 /\ rom0Len # BANK_SIZE
                filled == IF fill
                          THEN Cat(rom0, Fill(padValue, BANK_SIZE - rom0Len))
                          ELSE rom0
                banks  == RoundedBanks(IF nbBanks = 1 THEN 2 ELSE nbBanks)
            IN /\ rom0' = SetByte(filled, 328, RomSizeCode(banks))
               /\ rom0Len' = IF fill THEN BANK_SIZE ELSE rom0Len
               /\ nbBanks' = banks
               /\ globalSum' =
                    (globalSum + PaddingSum(padValue, banks, totalRomxLen))
                    % 65536
               /\ pc' = "hsum"
    /\ UNCHANGED <<cfgVars, nbErrors, message, errno, fileVars, fileSize, romx,
                   totalRomxLen, len>>

\* lines 816-822: the header checksum
FixHeaderSum ==
    /\ pc = "hsum"
    /\ rom0' = IF Has(fixSpec, FIX_HEADER_SUM + TRASH_HEADER_SUM)
               THEN SetByte(rom0, 333, StoredHeaderSum(rom0))
               ELSE rom0
    /\ pc' = "gsum"
    /\ UNCHANGED <<cfgVars, nbErrors, message, errno, fileVars, fileSize,
                   rom0Len, globalSum, romx, nbBanks, totalRomxLen, len>>

\* lines 824-829: the global checksum's bytes are zeroed and bank 0 is summed
SumRom0 ==
    /\ pc = "gsum"
    /\ IF Has(fixSpec, FIX_GLOBAL_SUM + TRASH_GLOBAL_SUM)
       THEN /\ rom0' = ZeroGlobalSum(rom0)
            /\ globalSum' =
                 (globalSum + Sum16(Take(ZeroGlobalSum(rom0), rom0Len))) % 65536
            /\ pc' = IF inplace THEN "gsumread" ELSE "gsumend"
       ELSE /\ pc' = "rewind"
            /\ UNCHANGED <<rom0, globalSum>>
    /\ UNCHANGED <<cfgVars, nbErrors, message, errno, fileVars, fileSize,
                   rom0Len, romx, nbBanks, totalRomxLen, len>>

\* lines 832-839: in place, one turn of the loop that sums the rest of the file
SumRomxBank(E) ==
    /\ pc = "gsumread"
    /\ \E s \in ReadScheds(E) :
         LET r       == readBytes(disk, offset, BANK_SIZE, s)
             romxLen == r.ret
         IN /\ offset' = r.pos
            /\ errno' = r.errno
            /\ globalSum' = IF romxLen > 0
                            THEN (globalSum + Sum16(Take(r.buf, romxLen))) % 65536
                            ELSE globalSum
            /\ pc' = IF romxLen # BANK_SIZE THEN "gsumend" ELSE "gsumread"
    /\ UNCHANGED <<cfgVars, nbErrors, message, image, inplace, disk, out,
                   fileSize, rom0, rom0Len, romx, nbBanks, totalRomxLen, len>>

\* lines 842-845: the global checksum is stored
StoreSum ==
    /\ pc = "gsumend"
    /\ rom0' = StoreGlobalSum(rom0, globalSum)
    /\ globalSum' = IF Has(fixSpec, TRASH_GLOBAL_SUM) THEN Not16(globalSum)
                    ELSE globalSum
    /\ pc' = "rewind"
    /\ UNCHANGED <<cfgVars, nbErrors, message, errno, fileVars, fileSize,
                   rom0Len, romx, nbBanks, totalRomxLen, len>>

\* lines 850-859: in place, back to the start of the file; without padding
\* only the header is written back
Rewind(E) ==
    /\ pc = "rewind"
    /\ \E k \in (IF inplace THEN E.seek ELSE {"ok"}) :
         /\ nbErrors' = IF k # "ok" THEN report(nbErrors) ELSE nbErrors
         /\ message' = IF k # "ok" THEN "rewind" ELSE message
         /\ errno' = IF k # "ok" THEN k ELSE errno
         /\ offset' = IF inplace /\ k = "ok" THEN 0 ELSE offset
         /\ rom0Len' = IF inplace /\ k = "ok" /\ padValue = UNSPECIFIED
                       THEN HEADER_SIZE ELSE rom0Len
         /\ pc' = IF k # "ok" THEN "done" ELSE "write0"
    /\ UNCHANGED <<cfgVars, image, inplace, disk, out, fileSize, rom0,
                   globalSum, romx, nbBanks, totalRomxLen, len>>

\* the effect of one writeBytes(output, buf, n) and of the test of its result
\* (lines 860-869, 873-881, 899-904): next is where a full write leads
Write(E, buf, n, what, next) ==
    \E s \in E.sched :
         LET w == writeBytes(Output, OutPos, buf, n, s)
             bad == w.ret = -1 \/ w.ret < n
         IN /\ disk' = IF inplace THEN w.file ELSE disk
            /\ offset' = IF inplace THEN w.pos ELSE offset
            /\ out' = IF inplace THEN out ELSE w.file
            /\ errno' = w.errno
            /\ nbErrors' = IF bad THEN report(nbErrors) ELSE nbErrors
            /\ message' = IF bad THEN what ELSE message
            /\ pc' = IF bad THEN "done" ELSE next

\* lines 860-869: rom0 is written
WriteRom0(E) ==
    /\ pc = "write0"
    /\ Write(E, rom0, rom0Len, "write ROM0", "writex")
    /\ UNCHANGED <<cfgVars, image, inplace, locVars>>

\* lines 872-882: the buffered ROMX is written.  A length above SSIZE_MAX
\* fails writeBytes's assertion (line 634); built with NDEBUG the length
\* reaches write(2), which may fail or stop the process.
WriteRomx(E) ==
    /\ pc = "writex"
    /\ IF romx = NULLBUF
       THEN /\ pc' = "padding"
            /\ UNCHANGED <<disk, offset, out, errno, nbErrors, message>>
       ELSE IF totalRomxLen < 0
       THEN \E k \in {"abort", "EFAULT"} :
              /\ pc' = IF k = "abort" THEN "abort" ELSE "done"
              /\ errno' = IF k = "abort" THEN errno ELSE k
              /\ nbErrors' = IF k = "abort" THEN nbErrors ELSE report(nbErrors)
              /\ message' = IF k = "abort" THEN message ELSE "write ROMX"
              /\ UNCHANGED <<disk, offset, out>>
       ELSE Write(E, romx, totalRomxLen, "write ROMX", "padding")
    /\ UNCHANGED <<cfgVars, image, inplace, locVars>>

\* lines 885-894: with a pad value, in place, to the end of the file; the
\* number of bytes to add
SeekEnd(E) ==
    /\ pc = "padding"
    /\ \E k \in (IF inplace /\ padValue # UNSPECIFIED THEN E.seek ELSE {"ok"}) :
         LET n == IF padValue # UNSPECIFIED /\ k = "ok"
                  THEN PaddingLen(nbBanks, totalRomxLen) ELSE 0
         IN /\ nbErrors' = IF k # "ok" THEN report(nbErrors) ELSE nbErrors
            /\ message' = IF k # "ok" THEN "seek to end" ELSE message
            /\ errno' = IF k # "ok" THEN k ELSE errno
            /\ offset' = IF inplace /\ padValue # UNSPECIFIED /\ k = "ok"
                         THEN Size(disk) ELSE offset
            /\ len' = n
            /\ pc' = IF n = 0 THEN "done" ELSE "writepad"
    /\ UNCHANGED <<cfgVars, image, inplace, disk, out, fileSize, rom0, rom0Len,
                   globalSum, romx, nbBanks, totalRomxLen>>

\* lines 896-907: one turn of the loop that writes the padding
WritePadding(E) ==
    /\ pc = "writepad"
    /\ LET thisLen == IF len > BANK_SIZE THEN BANK_SIZE ELSE len
       IN /\ Write(E, Fill(padValue, BANK_SIZE), thisLen, "write padding",
                   IF len - thisLen = 0 THEN "done" ELSE "writepad")
          /\ len' = IF pc' = "done" /\ nbErrors' # nbErrors THEN len
                    ELSE len - thisLen
    /\ UNCHANGED <<cfgVars, image, inplace, fileSize, rom0, rom0Len, globalSum,
                   romx, nbBanks, totalRomxLen>>

\* lines 1087-1099: -m <mbc_type>
OptM ==
    /\ pc = "getopt"
    /\ cartridgeType' = parseMBC(optarg)
    /\ nbErrors' = IF cartridgeType' \in {MBC_BAD, MBC_WRONG_FEATURES, MBC_BAD_RANGE}
                   THEN report(nbErrors) ELSE nbErrors
    /\ message' = CASE cartridgeType' = MBC_BAD -> "unknown MBC"
                    [] cartridgeType' = MBC_WRONG_FEATURES -> "incompatible features"
                    [] cartridgeType' = MBC_BAD_RANGE -> "MBC out of range"
                    [] OTHER -> message
    /\ pc' = "parsed"
    /\ UNCHANGED <<optarg, optVars, mainVars, errno, fileVars, locVars>>

----------------------------------------------------------------------------
(* Images and configurations *)

\* the header region, bank 0's body and each further bank hold their own value
RECURSIVE FromRuns(_)
FromRuns(r) ==
    IF r = <<>> THEN <<>>
    ELSE Cat(FromRuns(SubSeq(r, 1, Len(r) - 1)), Fill(r[Len(r)][1], r[Len(r)][2]))

Pattern(p) ==
    IF p = 1
    THEN FromRuns(<< <<195, 260>>, <<17, 48>>, <<65, 16>>, <<7, 9>>, <<238, 3>>,
                     <<90, BANK_SIZE - HEADER_SIZE>>, <<165, BANK_SIZE>>,
                     <<60, BANK_SIZE>>, <<129, BANK_SIZE>>,
                     <<255, MAX_BANKS * BANK_SIZE>> >>)
    ELSE FromRuns(<< <<255, 308>>, <<0, 25>>, <<255, BANK_SIZE - 333>>,
                     <<1, BANK_SIZE>>, <<254, MAX_BANKS * BANK_SIZE>> >>)

Patterns == {1, 2}

ImageOf(p, n) == Take(Pattern(p), n)

SmallSizes ==
    {0, HEADER_SIZE - 1, HEADER_SIZE}
    \cup {s \in {k * BANK_SIZE + d : k \in 0 .. MaxRomxBanks, d \in {0, 1, 8192}} :
            s > HEADER_SIZE}

\* bank counts at and next to the powers of two, up to the cap and past it
EdgeBanks ==
    {Pow2(k) - 1 : k \in 2 .. 16} \cup {Pow2(k) : k \in 2 .. 16} \cup {5, 9}

BigSizes ==
    {n * BANK_SIZE : n \in EdgeBanks}
    \cup {MAX_BANKS * BANK_SIZE - 1, MAX_BANKS * BANK_SIZE + 1}

FixAll   == FIX_LOGO + FIX_HEADER_SUM + FIX_GLOBAL_SUM
TrashAll == TRASH_LOGO + TRASH_HEADER_SUM + TRASH_GLOBAL_SUM

Configs ==
    [fixSpec : {0, FixAll, TrashAll, FIX_GLOBAL_SUM, TRASH_HEADER_SUM},
     padValue : {UNSPECIFIED, 0, 255},
     edits : BOOLEAN]

\* big files, in place: no pass over the whole file is asked for
BigConfigs ==
    [fixSpec : {0, FIX_HEADER_SUM}, padValue : {UNSPECIFIED, 255}, edits : {FALSE}]

FaultConfigs ==
    [fixSpec : {FixAll}, padValue : {UNSPECIFIED, 255}, edits : {FALSE}]

FaultSizes == {HEADER_SIZE, BANK_SIZE + 1, 2 * BANK_SIZE}

\* the configuration c resolved by main, and one file about to be processed
Resolved(c, img, ip) ==
    /\ fixSpec = c.fixSpec
    /\ padValue = c.padValue
    /\ model = IF c.edits THEN CGB ELSE DMG
    /\ title = IF c.edits THEN <<82, 71, 66, 70, 73, 88>> ELSE NULL
    /\ titleLen = IF c.edits THEN 6 ELSE 0
    /\ gameID = IF c.edits THEN <<65, 66, 67, 69>> ELSE NULL
    /\ gameIDLen = IF c.edits THEN 4 ELSE 0
    /\ newLicensee = IF c.edits THEN <<48, 49>> ELSE NULL
    /\ newLicenseeLen = IF c.edits THEN 2 ELSE 0
    /\ sgb = c.edits
    /\ japanese = ~c.edits
    /\ cartridgeType = IF c.edits THEN MBC5_RAM_BATTERY ELSE MBC_NONE
    /\ ramSize = IF c.edits THEN 3 ELSE UNSPECIFIED
    /\ oldLicensee = IF c.edits THEN 51 ELSE UNSPECIFIED
    /\ romVersion = IF c.edits THEN 2 ELSE UNSPECIFIED
    /\ nbErrors = 0
    /\ message = "none"
    /\ errno = "none"
    /\ image = img
    /\ inplace = ip
    /\ disk = img
    /\ offset = 0
    /\ out = <<>>
    /\ fileSize = 0
    /\ rom0 = <<>>
    /\ rom0Len = 0
    /\ globalSum = 0
    /\ romx = NULLBUF
    /\ nbBanks = 1
    /\ totalRomxLen = 0
    /\ len = 0

\* one file given and no option error: main has just called processFilename
InitRun(c, img, ip) ==
    /\ Resolved(c, img, ip)
    /\ optarg = <<>>
    /\ ch = "-1"
    /\ files = <<[image |-> img, inplace |-> ip]>>
    /\ argv = 1
    /\ failed = FALSE
    /\ seen = <<FALSE>>
    /\ pc = "start"

Init ==
    \/ \E c \in Configs, p \in Patterns, n \in SmallSizes, ip \in BOOLEAN :
         InitRun(c, ImageOf(p, n), ip)
    \/ \E c \in BigConfigs, n \in BigSizes : InitRun(c, ImageOf(1, n), TRUE)

Next ==
    \/ Start(Reliable)
    \/ ReadRom0(Reliable)
    \/ EditHeader
    \/ HandleRomx
    \/ ReadRomxBank(Reliable)
    \/ Pad
    \/ FixHeaderSum
    \/ SumRom0
    \/ SumRomxBank(Reliable)
    \/ StoreSum
    \/ Rewind(Reliable)
    \/ WriteRom0(Reliable)
    \/ WriteRomx(Reliable)
    \/ SeekEnd(Reliable)
    \/ WritePadding(Reliable)

Spec == Init /\ [][Next]_vars

(* The same steps under any behaviour of the I/O calls *)

InitIO ==
    \E c \in FaultConfigs, n \in FaultSizes, ip \in BOOLEAN :
        InitRun(c, ImageOf(1, n), ip)

NextIO ==
    \/ Start(Posix)
    \/ ReadRom0(Posix)
    \/ EditHeader
    \/ HandleRomx
    \/ ReadRomxBank(Posix)
    \/ Pad
    \/ FixHeaderSum
    \/ SumRom0
    \/ SumRomxBank(Posix)
    \/ StoreSum
    \/ Rewind(Posix)
    \/ WriteRom0(Posix)
    \/ WriteRomx(Posix)
    \/ SeekEnd(Posix)
    \/ WritePadding(Posix)

SpecIO == InitIO /\ [][NextIO]_vars

(* The -m option alone *)

InitMBC ==
    /\ Resolved([fixSpec |-> 0, padValue |-> UNSPECIFIED, edits |-> FALSE],
                <<>>, FALSE)
    /\ optarg \in MbcArgs
    /\ ch = "m"
    /\ files = <<>>
    /\ argv = 0
    /\ failed = FALSE
    /\ seen = <<>>
    /\ pc = "getopt"

SpecMBC == InitMBC /\ [][OptM]_vars

----------------------------------------------------------------------------
(* Reference definitions used by the properties *)

GlobalSumRequested == Has(fixSpec, FIX_GLOBAL_SUM + TRASH_GLOBAL_SUM)
HeaderSumRequested == Has(fixSpec, FIX_HEADER_SUM + TRASH_HEADER_SUM)

Succeeded == pc = "done" /\ nbErrors = 0

\* the big-endian value at 0x14E-0x14F
StoredGlobalSum(img) == At(img, 334) * 256 + At(img, 335)

\* the sum of every byte of img but the two at 0x14E-0x14F, modulo 2^16
SumBut14E(img) == (Sum16(img) + 2 * 65536 - At(img, 334) - At(img, 335)) % 65536

RECURSIVE RangeSum(_, _, _)
RangeSum(img, lo, hi) ==
    IF lo > hi THEN 0 ELSE At(img, lo) + RangeSum(img, lo + 1, hi)

\* 0 - sum over 0x134..0x14C of (byte + 1), modulo 256
RefHeaderSum(img) == (256 * 32 - (RangeSum(img, 308, 332) + 25)) % 256

PowersOfTwo == {Pow2(k) : k \in 0 .. 17}
SmallestPow2AtLeast(m) ==
    CHOOSE p \in PowersOfTwo : p >= m /\ \A q \in PowersOfTwo : q >= m => p <= q
Log2(x) == CHOOSE k \in 0 .. 17 : Pow2(k) = x

\* the banks of 16 KiB an image needs
NeededBanks(img) == (Size(img) + BANK_SIZE - 1) \div BANK_SIZE

NothingWritten == out = <<>> /\ disk = image

----------------------------------------------------------------------------
(* Properties *)

\* C1: when the run ends without an error and the global checksum was
\* requested, the big-endian value at 0x14E-0x14F of the final image is the
\* sum modulo 2^16 of all its other bytes (their complement for a trash
\* request), in place and streamed, with and without padding.
C1_GlobalChecksum ==
    (Succeeded /\ GlobalSumRequested) =>
        StoredGlobalSum(FinalImage) =
            IF Has(fixSpec, TRASH_GLOBAL_SUM) THEN Not16(SumBut14E(FinalImage))
            ELSE SumBut14E(FinalImage)

C1_Witness ==
    /\ Succeeded /\ GlobalSumRequested /\ inplace /\ padValue = 255
    /\ Size(image) = BANK_SIZE + 1
    /\ Size(FinalImage) = 2 * BANK_SIZE
    /\ StoredGlobalSum(FinalImage) # StoredGlobalSum(image)

\* C2: when the run ends without an error and the header checksum was
\* requested, the byte at 0x14D of the final image is 0 - sum over
\* 0x134..0x14C of (byte + 1) modulo 256 over the final image's bytes (its
\* complement for a trash request).
C2_HeaderChecksum ==
    (Succeeded /\ HeaderSumRequested) =>
        At(FinalImage, 333) =
            IF Has(fixSpec, TRASH_HEADER_SUM) THEN Not8(RefHeaderSum(FinalImage))
            ELSE RefHeaderSum(FinalImage)

C2_Witness ==
    /\ Succeeded /\ HeaderSumRequested /\ padValue # UNSPECIFIED
    /\ title # NULL
    /\ At(FinalImage, 328) # At(image, 328)
    /\ At(FinalImage, 333) # At(image, 333)

\* C4: with a pad value, the padding step turns the observed bank count n
\* into the smallest power of two >= max(2, n) and writes log2(target / 2)
\* at 0x148.
C4_PaddingPlan ==
    [][(pc = "pad" /\ padValue # UNSPECIFIED /\ pc' = "hsum") =>
          /\ nbBanks' = SmallestPow2AtLeast(Max(2, nbBanks))
          /\ At(rom0', 328) = Log2(nbBanks' \div 2)]_vars

C4_Witness ==
    /\ pc = "hsum" /\ padValue # UNSPECIFIED
    /\ totalRomxLen = 2 * BANK_SIZE
    /\ nbBanks = 4
    /\ At(rom0, 328) = 1

\* C5: with a pad value V, after a run without an error the final image is
\* target x 16384 bytes long, target the smallest power of two >= max(2,
\* banks of the input); the input's bytes from 0x150 on are where they were
\* and every byte past the input's length is V.
C5_PaddedImage ==
    (Succeeded /\ padValue # UNSPECIFIED) =>
        /\ nbBanks = SmallestPow2AtLeast(Max(2, NeededBanks(image)))
        /\ Size(FinalImage) = nbBanks * BANK_SIZE
        /\ Slice(FinalImage, HEADER_SIZE, Size(image) - HEADER_SIZE)
             = Drop(image, HEADER_SIZE)
        /\ Drop(FinalImage, Size(image))
             = Fill(padValue, Size(FinalImage) - Size(image))

C5_Witness ==
    /\ Succeeded /\ padValue = 0 /\ ~inplace
    /\ Size(image) = 8192
    /\ Size(FinalImage) = 2 * BANK_SIZE

\* C6: an image shorter than 336 bytes gets the too-short error and not a
\* byte is written, whatever the configuration and the mode.
C6_TooShort ==
    Size(image) < HEADER_SIZE =>
        /\ NothingWritten
        /\ pc = "done" => (nbErrors # 0 /\ message = "too short")

C6_Witness ==
    /\ pc = "done" /\ Size(image) = HEADER_SIZE - 1 /\ inplace
    /\ fixSpec = FixAll /\ padValue = 255
    /\ message = "too short"

\* C7: the too-many-banks error is given exactly to the images that need
\* more than 65536 banks, and before a byte is written.
C7_BankLimit ==
    (pc = "done" /\ Size(image) >= HEADER_SIZE) =>
        /\ message = "too many banks" <=> NeededBanks(image) > MAX_BANKS
        /\ message = "too many banks" => NothingWritten

----------------------------------------------------------------------------
(* The -m option: reference definitions and properties *)

\* the feature sets each base type takes, and the code of each
PolicyTable(b) ==
    CASE b \in {<<"R", "O", "M">>, <<"R", "O", "M", " ", "O", "N", "L", "Y">>} ->
           {<<{}, ROM>>, <<{RAM}, ROM_RAM>>, <<{RAM, BATTERY}, ROM_RAM_BATTERY>>}
      [] b = <<"M", "B", "C", "1">> ->
           {<<{}, MBC1>>, <<{RAM}, MBC1_RAM>>, <<{RAM, BATTERY}, MBC1_RAM_BATTERY>>}
      [] b = <<"M", "M", "M", "0", "1">> ->
           {<<{}, MMM01>>, <<{RAM}, MMM01_RAM>>,
            <<{RAM, BATTERY}, MMM01_RAM_BATTERY>>}
      [] b = <<"M", "B", "C", "2">> ->
           {<<{}, MBC2>>, <<{BATTERY}, MBC2_BATTERY>>}
      [] b = <<"M", "B", "C", "3">> ->
           {<<{}, MBC3>>, <<{RAM}, MBC3_RAM>>, <<{RAM, BATTERY}, MBC3_RAM_BATTERY>>,
            <<{TIMER, BATTERY}, MBC3_TIMER_BATTERY>>,
            <<{TIMER, RAM, BATTERY}, MBC3_TIMER_RAM_BATTERY>>}
      [] b = <<"M", "B", "C", "5">> ->
           {<<{}, MBC5>>, <<{RAM}, MBC5_RAM>>, <<{RAM, BATTERY}, MBC5_RAM_BATTERY>>,
            <<{RUMBLE}, MBC5_RUMBLE>>, <<{RUMBLE, RAM}, MBC5_RUMBLE_RAM>>,
            <<{RUMBLE, RAM, BATTERY}, MBC5_RUMBLE_RAM_BATTERY>>}
      [] b = <<"M", "B", "C", "6">> -> {<<{}, MBC6>>}
      [] b = <<"P", "O", "C", "K", "E", "T", " ", "C", "A", "M", "E", "R", "A">> ->
           {<<{}, POCKET_CAMERA>>}
      [] b \in {<<"B", "A", "N", "D", "A", "I", " ", "T", "A", "M", "A", "5">>,
                <<"T", "A", "M", "A", "5">>} ->
           {<<{}, BANDAI_TAMA5>>}
      [] b = <<"H", "U", "C", "3">> -> {<<{}, HUC3>>}
      [] b = <<"M", "B", "C", "7">> ->
           {<<{SENSOR, RUMBLE, RAM, BATTERY}, MBC7_SENSOR_RUMBLE_RAM_BATTERY>>}
      [] b = <<"H", "U", "C", "1">> -> {<<{RAM, BATTERY}, HUC1_RAM_BATTERY>>}

Expected(b, F) ==
    IF \E e \in PolicyTable(b) : e[1] = F
    THEN (CHOOSE e \in PolicyTable(b) : e[1] = F)[2]
    ELSE MBC_WRONG_FEATURES

\* s in capitals, its underscores as spaces
Canon(s) ==
    [i \in DOMAIN s |-> IF s[i] = "_" THEN " "
                         ELSE IF IsLower(s[i]) THEN ToUpper(s[i]) ELSE s[i]]

Symbolic(s) == ~IsDigit(Ch(s, 0))

\* C3: parseMBC on a base type and a set of features gives the code of the
\* combination when the policy table has it and wrong-features when not;
\* so "mbc3+timer+battery" gives 0x0F and "mbc3+timer+ram+battery" 0x10.
C3_PolicyTable ==
    pc = "parsed" =>
        \A b \in BaseNames, F \in SUBSET Features, v \in {"plain", "lower"} :
            optarg = Spelled(v, Render(b, F)) => cartridgeType = Expected(b, F)

\* C8: parseMBC gives one result for all the spellings of a symbolic name
\* that differ in letter case or in underscores for spaces, wherever they are.
C8_SpellingInvariance ==
    (pc = "parsed" /\ Symbolic(optarg)) => cartridgeType = parseMBC(Canon(optarg))

\* C9: parseMBC(mbcName(c)) = c for every code c of enum MbcType.
C9_NameRoundTrip ==
    pc = "parsed" =>
        \A c \in MbcTypes : optarg = mbcName(c) => cartridgeType = c

----------------------------------------------------------------------------
(* processFile under failing I/O *)

\* C10: once a read, a write or a seek of processFile has failed with an
\* error other than EINTR, an error is recorded and the file's processing
\* has stopped.
C10_IOFailureStops ==
    errno = "EIO" => (nbErrors # 0 /\ pc = "done")

----------------------------------------------------------------------------
(* processFile with one header option at a time *)

EditOptions ==
    {"none", "title", "gameID", "model", "newLicensee", "sgb", "mbc", "bad mbc",
     "ramSize", "japanese", "oldLicensee", "romVersion"}

EditSizes == {HEADER_SIZE, BANK_SIZE + 1, 2 * BANK_SIZE + 8192}

EditFixSpecs == {0, FIX_LOGO, TRASH_LOGO, FIX_HEADER_SUM, TRASH_GLOBAL_SUM}

\* the configuration main resolves from the one option e (lines 994-1136),
\* and one file about to be processed
OneOption(e, fs, pv, img, ip) ==
    /\ fixSpec = fs
    /\ padValue = pv
    /\ model = IF e = "model" THEN BOTH ELSE DMG
    /\ title = IF e = "title" THEN <<82, 71, 66, 70, 73, 88>> ELSE NULL
    /\ titleLen = IF e = "title" THEN 6 ELSE 0
    /\ gameID = IF e = "gameID" THEN <<65, 66, 67, 69>> ELSE NULL
    /\ gameIDLen = IF e = "gameID" THEN 4 ELSE 0
    /\ newLicensee = IF e = "newLicensee" THEN <<48, 49>> ELSE NULL
    /\ newLicenseeLen = IF e = "newLicensee" THEN 2 ELSE 0
    /\ sgb = (e = "sgb")
    /\ japanese = (e # "japanese")
    /\ cartridgeType = IF e = "mbc" THEN MBC5_RAM_BATTERY
                       ELSE IF e = "bad mbc" THEN MBC_WRONG_FEATURES
                       ELSE MBC_NONE
    /\ ramSize = IF e = "ramSize" THEN 3 ELSE UNSPECIFIED
    /\ oldLicensee = IF e = "oldLicensee" THEN 51 ELSE UNSPECIFIED
    /\ romVersion = IF e = "romVersion" THEN 2 ELSE UNSPECIFIED
    /\ nbErrors = IF e = "bad mbc" THEN 1 ELSE 0
    /\ message = IF e = "bad mbc" THEN "incompatible features" ELSE "none"
    /\ errno = "none"
    /\ image = img
    /\ inplace = ip
    /\ disk = img
    /\ offset = 0
    /\ out = <<>>
    /\ fileSize = 0
    /\ rom0 = <<>>
    /\ rom0Len = 0
    /\ globalSum = 0
    /\ romx = NULLBUF
    /\ nbBanks = 1
    /\ totalRomxLen = 0
    /\ len = 0
    /\ optarg = <<>>
    /\ ch = "-1"
    /\ files = <<[image |-> img, inplace |-> ip]>>
    /\ argv = 1
    /\ failed = (e = "bad mbc")
    /\ seen = <<e = "bad mbc">>
    /\ pc = "start"

InitEdit ==
    \E e \in EditOptions, fs \in EditFixSpecs, pv \in {UNSPECIFIED, 255},
       p \in Patterns, n \in EditSizes, ip \in BOOLEAN :
        OneOption(e, fs, pv, ImageOf(p, n), ip)

SpecEdit == InitEdit /\ [][Next]_vars

\* the offsets below 0x150 the configuration asks to write
Allowed(i) ==
    \/ Has(fixSpec, FIX_LOGO + TRASH_LOGO) /\ i \in 260 .. 307
    \/ title # NULL /\ i \in 308 .. (308 + titleLen - 1)
    \/ gameID # NULL /\ i \in 319 .. (319 + gameIDLen - 1)
    \/ model # DMG /\ i = 323
    \/ newLicensee # NULL /\ i \in 324 .. (324 + newLicenseeLen - 1)
    \/ sgb /\ i = 326
    \/ cartridgeType \in 0 .. 255 /\ i = 327
    \/ padValue # UNSPECIFIED /\ i = 328
    \/ ramSize # UNSPECIFIED /\ i = 329
    \/ ~japanese /\ i = 330
    \/ oldLicensee # UNSPECIFIED /\ i = 331
    \/ romVersion # UNSPECIFIED /\ i = 332
    \/ HeaderSumRequested /\ i = 333
    \/ GlobalSumRequested /\ i \in {334, 335}

EmptyConfiguration ==
    /\ fixSpec = 0 /\ padValue = UNSPECIFIED /\ model = DMG
    /\ title = NULL /\ gameID = NULL /\ newLicensee = NULL
    /\ ~sgb /\ japanese /\ cartridgeType >= MBC_NONE
    /\ ramSize = UNSPECIFIED /\ oldLicensee = UNSPECIFIED
    /\ romVersion = UNSPECIFIED

\* C11: after a run without an error a byte differs from the input only at
\* an offset a requested field covers or as an appended padding byte; in
\* place without a pad value nothing at or past 0x150 is ever written and
\* the length stays; with nothing requested the output is the input.
C11_Frame ==
    /\ (inplace /\ padValue = UNSPECIFIED) =>
          (Size(disk) = Size(image)
           /\ Drop(disk, HEADER_SIZE) = Drop(image, HEADER_SIZE))
    /\ Succeeded =>
          /\ \A i \in 0 .. HEADER_SIZE - 1 :
                At(FinalImage, i) # At(image, i) => Allowed(i)
          /\ Size(FinalImage) >= Size(image)
          /\ Slice(FinalImage, HEADER_SIZE, Size(image) - HEADER_SIZE)
               = Drop(image, HEADER_SIZE)
          /\ Size(FinalImage) > Size(image) =>
                /\ padValue # UNSPECIFIED
                /\ Drop(FinalImage, Size(image))
                     = Fill(padValue, Size(FinalImage) - Size(image))
          /\ EmptyConfiguration => FinalImage = image

C11_Witness ==
    /\ Succeeded /\ ~inplace /\ sgb /\ padValue = UNSPECIFIED
    /\ Has(fixSpec, FIX_HEADER_SUM)
    /\ Size(image) = 2 * BANK_SIZE + 8192
    /\ At(FinalImage, 326) = 3 /\ At(image, 326) # 3
    /\ At(FinalImage, 333) # At(image, 333)
    /\ Drop(FinalImage, HEADER_SIZE) = Drop(image, HEADER_SIZE)

----------------------------------------------------------------------------
(* Numeric arguments of -m *)

HexDigits == <<"0", "1", "2", "3", "4", "5", "6", "7", "8", "9",
               "a", "b", "c", "d", "e", "f">>

\* the value of the digit c, -1 when c is no digit of the base
LiteralDigit(c, base) ==
    LET l == ToLower(c)
    IN IF l \in Range(HexDigits) /\ IndexOf(HexDigits, l) <= base
       THEN IndexOf(HexDigits, l) - 1 ELSE -1

IsLiteral(s, from, base) ==
    /\ Len(s) >= from
    /\ \A i \in from .. Len(s) : LiteralDigit(s[i], base) # -1

\* the value of the digits s[from .. Len(s)] read in the base, large values
\* kept apart from 0 .. 255 only
RECURSIVE LiteralValue(_, _, _, _)
LiteralValue(s, from, base, acc) ==
    IF from > Len(s) THEN acc
    ELSE LiteralValue(s, from + 1, base,
                      Min(acc * base + LiteralDigit(s[from], base), 1000000))

IsHexLiteral(s) ==
    Len(s) >= 2 /\ s[1] = "0" /\ s[2] \in {"x", "X"} /\ IsLiteral(s, 3, 16)

\* what a token that starts with a digit stands for: its value, out of
\* range, or not a number
NumericExpected(s) ==
    LET v == IF IsHexLiteral(s) THEN LiteralValue(s, 3, 16, 0)
             ELSE LiteralValue(s, 1, 10, 0)
    IN IF ~(IsHexLiteral(s) \/ IsLiteral(s, 1, 10)) THEN MBC_BAD
       ELSE IF v > 255 THEN MBC_BAD_RANGE
       ELSE v

\* C12: for a token that starts with a digit parseMBC returns its decimal
\* value, or its hexadecimal value after 0x, when that is 0 .. 255,
\* bad-range when the value is larger, and bad-syntax when anything follows
\* the number.
C12_NumericToken ==
    (pc = "parsed" /\ IsDigit(Ch(optarg, 0))) =>
        cartridgeType = NumericExpected(optarg)

----------------------------------------------------------------------------
(* Partial transfers *)

\* C16: when writeBytes returns the length asked for, the bytes written are
\* the buffer's, in order and each once, however write(2) split them; and
\* readBytes stores the next bytes of the input in order.
C16_ExactTransfer ==
    /\ pc = "edit" =>
          (rom0Len = Min(BANK_SIZE, Size(image)) /\ rom0 = Take(image, rom0Len))
    /\ pc = "writex" => Take(Output, rom0Len) = Take(rom0, rom0Len)

----------------------------------------------------------------------------
(* main's option loop (lines 968-1140): -c -C -f -i -k -t -v *)

\* a variant that leaves the other letter's bit set
SpecOrKeeping(spec, new, bad) == BitOr(spec, new)

\* line 1019: fixSpec = (fixSpec & ~SPEC_bad) | SPEC_new
SpecOr(spec, new, bad) == BitOr(ClearBits(spec, bad), new)

\* lines 1006-1047: the switch on one character of the fix spec
FixLetter(spec, c) ==
    CASE c = "l" -> SpecOr(spec, FIX_LOGO, TRASH_LOGO)
      [] c = "L" -> SpecOr(spec, TRASH_LOGO, FIX_LOGO)
      [] c = "h" -> SpecOr(spec, FIX_HEADER_SUM, TRASH_HEADER_SUM)
      [] c = "H" -> SpecOr(spec, TRASH_HEADER_SUM, FIX_HEADER_SUM)
      [] c = "g" -> SpecOr(spec, FIX_GLOBAL_SUM, TRASH_GLOBAL_SUM)
      [] c = "G" -> SpecOr(spec, TRASH_GLOBAL_SUM, FIX_GLOBAL_SUM)
      [] OTHER -> spec

\* lines 1005-1047: while (*optarg) { ...; optarg++; } from the character at ptr
RECURSIVE FixLoop(_, _, _)
FixLoop(arg, ptr, spec) ==
    IF Ch(arg, ptr) = NUL THEN spec
    ELSE FixLoop(arg, ptr + 1, FixLetter(spec, Ch(arg, ptr)))

\* a variant that ignores the game ID
maxTitleLenWithoutID == IF model # DMG THEN 15 ELSE 16

\* lines 600-603
maxTitleLen == IF gameID # NULL THEN 11 ELSE IF model # DMG THEN 15 ELSE 16

\* strlen capped (lines 1053-1058, 1077-1083, 1120-1128)
Truncated(arg, max) == IF Len(arg) > max THEN max ELSE Len(arg)

\* a string of n bytes, none of them 0
Name(n) == [i \in 1 .. n |-> 64 + i]

TitleArgs == {Name(n) : n \in {5, 12, 16, MaxTitle}}
GameIDArgs == {Name(n) : n \in {3, MaxGameID}}
LicenseeArgs == {Name(n) : n \in {MaxLicensee}}

FixArgs ==
    {<<>>, <<"l">>, <<"L">>, <<"h">>, <<"H">>, <<"g">>, <<"G">>, <<"x">>,
     <<"l", "L">>, <<"L", "l">>, <<"h", "H">>, <<"H", "h">>, <<"g", "G">>,
     <<"G", "g">>, <<"l", "h", "g">>, <<"L", "H", "G">>, <<"l", "L", "h">>,
     <<"l", "L", "l">>, <<"l", "x", "L">>,
     <<"g", "G", "h", "H", "l", "L">>}

\* lines 994-1002
OptC ==
    /\ pc = "getopt"
    /\ \E c \in {"c", "C"} :
         /\ ch' = c
         /\ model' = IF c = "c" THEN BOTH ELSE CGB
    /\ optarg' = NULL
    /\ titleLen' = IF titleLen > 15 THEN 15 ELSE titleLen
    /\ UNCHANGED <<fixSpec, gameID, gameIDLen, japanese, newLicensee,
                   newLicenseeLen, oldLicensee, romVersion, padValue, ramSize,
                   sgb, title, cartridgeType, files, argv, failed, seen,
                   nbErrors, message, errno, fileVars, locVars, pc>>

\* lines 1004-1049
OptF ==
    /\ pc = "getopt"
    /\ ch' = "f"
    /\ optarg' \in FixArgs
    /\ fixSpec' = FixLoop(optarg', 0, 0)
    /\ UNCHANGED <<model, gameID, gameIDLen, japanese, newLicensee,
                   newLicenseeLen, oldLicensee, romVersion, padValue, ramSize,
                   sgb, title, titleLen, cartridgeType, files, argv, failed,
                   seen, nbErrors, message, errno, fileVars, locVars, pc>>

\* lines 1051-1065
OptI ==
    /\ pc = "getopt"
    /\ ch' = "i"
    /\ optarg' \in GameIDArgs
    /\ gameID' = optarg'
    /\ gameIDLen' = Truncated(optarg', 4)
    /\ titleLen' = IF titleLen > 11 THEN 11 ELSE titleLen
    /\ UNCHANGED <<model, fixSpec, japanese, newLicensee, newLicenseeLen,
                   oldLicensee, romVersion, padValue, ramSize, sgb, title,
                   cartridgeType, files, argv, failed, seen, nbErrors, message,
                   errno, fileVars, locVars, pc>>

\* lines 1071-1081
OptK ==
    /\ pc = "getopt"
    /\ ch' = "k"
    /\ optarg' \in LicenseeArgs
    /\ newLicensee' = optarg'
    /\ newLicenseeLen' = Truncated(optarg', 2)
    /\ UNCHANGED <<model, fixSpec, gameID, gameIDLen, japanese, oldLicensee,
                   romVersion, padValue, ramSize, sgb, title, titleLen,
                   cartridgeType, files, argv, failed, seen, nbErrors, message,
                   errno, fileVars, locVars, pc>>

\* lines 1117-1129
OptT ==
    /\ pc = "getopt"
    /\ ch' = "t"
    /\ optarg' \in TitleArgs
    /\ title' = optarg'
    /\ titleLen' = Truncated(optarg', maxTitleLen)
    /\ UNCHANGED <<model, fixSpec, gameID, gameIDLen, japanese, newLicensee,
                   newLicenseeLen, oldLicensee, romVersion, padValue, ramSize,
                   sgb, cartridgeType, files, argv, failed, seen, nbErrors,
                   message, errno, fileVars, locVars, pc>>

\* lines 1134-1136
OptV ==
    /\ pc = "getopt"
    /\ ch' = "v"
    /\ optarg' = NULL
    /\ fixSpec' = BitOr(BitOr(FIX_LOGO, FIX_HEADER_SUM), FIX_GLOBAL_SUM)
    /\ UNCHANGED <<model, gameID, gameIDLen, japanese, newLicensee,
                   newLicenseeLen, oldLicensee, romVersion, padValue, ramSize,
                   sgb, title, titleLen, cartridgeType, files, argv, failed,
                   seen, nbErrors, message, errno, fileVars, locVars, pc>>

\* main's entry: the statics as initialised (lines 578-598), no option read
InitOpt ==
    /\ Resolved([fixSpec |-> 0, padValue |-> UNSPECIFIED, edits |-> FALSE],
                <<>>, FALSE)
    /\ optarg = NULL
    /\ ch = NUL
    /\ files = <<>>
    /\ argv = 0
    /\ failed = FALSE
    /\ seen = <<>>
    /\ pc = "getopt"

NextOpt == OptC \/ OptF \/ OptI \/ OptK \/ OptT \/ OptV

SpecOpt == InitOpt /\ [][NextOpt]_vars

----------------------------------------------------------------------------
(* The option loop: properties *)

\* the last place in arg of one of the letters, 0 when there is none
LastOf(arg, letters) ==
    LET at == {i \in DOMAIN arg : arg[i] \in letters}
    IN IF at = {} THEN 0 ELSE CHOOSE i \in at : \A j \in at : j <= i

\* the bit a field gets from a fix spec: that of the letter written last
FieldBit(arg, fix, trash, fixBit, trashBit) ==
    LET last == LastOf(arg, {fix, trash})
    IN IF last = 0 THEN 0 ELSE IF arg[last] = fix THEN fixBit ELSE trashBit

LastLetterWins(arg) ==
    FieldBit(arg, "l", "L", FIX_LOGO, TRASH_LOGO)
    + FieldBit(arg, "h", "H", FIX_HEADER_SUM, TRASH_HEADER_SUM)
    + FieldBit(arg, "g", "G", FIX_GLOBAL_SUM, TRASH_GLOBAL_SUM)

NoConflict ==
    /\ ~(Has(fixSpec, FIX_LOGO) /\ Has(fixSpec, TRASH_LOGO))
    /\ ~(Has(fixSpec, FIX_HEADER_SUM) /\ Has(fixSpec, TRASH_HEADER_SUM))
    /\ ~(Has(fixSpec, FIX_GLOBAL_SUM) /\ Has(fixSpec, TRASH_GLOBAL_SUM))

FixSpecResolved ==
    /\ NoConflict
    /\ ch = "f" => fixSpec = LastLetterWins(optarg)
    /\ ch = "v" => fixSpec = FIX_LOGO + FIX_HEADER_SUM + FIX_GLOBAL_SUM

\* C14: fixSpec never holds the repair and the corrupt bit of one field;
\* after -f it holds, for each field, the bit of the letter written last
\* in that spec and nothing of earlier options, after -v the three repair
\* bits; no other option changes it.
C14_FixSpec ==
    /\ []FixSpecResolved
    /\ [][ch' \notin {"f", "v"} => fixSpec' = fixSpec]_vars

C14_Witness ==
    /\ ch = "t" /\ title # NULL /\ gameID # NULL
    /\ fixSpec = TRASH_LOGO + FIX_HEADER_SUM

\* C15: the title length is at most 16, at most 15 with a colour mode and at
\* most 11 with a game ID, whatever the order of -t, -i, -c and -C; the game
\* ID length is at most 4 and the new licensee length at most 2.
C15_Lengths ==
    /\ titleLen <= 16
    /\ model # DMG => titleLen <= 15
    /\ gameID # NULL => titleLen <= 11
    /\ gameIDLen <= 4
    /\ newLicenseeLen <= 2
    /\ (title # NULL /\ gameID # NULL) => 308 + titleLen <= 319
    /\ (title # NULL /\ model # DMG) => 308 + titleLen <= 323

C15_Witness ==
    /\ ch \in {"c", "C"} /\ model # DMG
    /\ title # NULL /\ Len(title) = MaxTitle /\ titleLen = 11
    /\ gameID # NULL /\ Len(gameID) = MaxGameID /\ gameIDLen = 4
    /\ newLicensee # NULL /\ newLicenseeLen = 2

----------------------------------------------------------------------------
(* main from the option loop to its return (lines 968-1184) *)

MainMbcArgs == {<<"M", "B", "C", "1">>, <<"M", "B", "C", "4">>}

\* the files named on the command line: too short, two banks, more than
\* 65536 banks, and "-" (standard input to standard output)
FileKinds ==
    {[image |-> ImageOf(1, HEADER_SIZE - 1), inplace |-> TRUE],
     [image |-> ImageOf(1, 2 * BANK_SIZE), inplace |-> TRUE],
     [image |-> ImageOf(1, MAX_BANKS * BANK_SIZE + 1), inplace |-> TRUE],
     [image |-> ImageOf(2, BANK_SIZE + 1), inplace |-> FALSE]}

\* "-" at most once: standard input is read to its end the first time
FileLists ==
    UNION {{l \in [1 .. n -> FileKinds] :
              Cardinality({i \in 1 .. n : ~l[i].inplace}) <= 1} :
           n \in 1 .. MaxFiles}

\* processFilename(name) is called: the file behind the name, processFile's
\* locals not yet set
Call(f) ==
    /\ image' = f.image
    /\ inplace' = f.inplace
    /\ disk' = f.image
    /\ offset' = 0
    /\ fileSize' = 0
    /\ rom0' = <<>>
    /\ rom0Len' = 0
    /\ globalSum' = 0
    /\ romx' = NULLBUF
    /\ nbBanks' = 1
    /\ totalRomxLen' = 0
    /\ len' = 0
    /\ pc' = "start"

\* line 968: getopt returns 'm' once more
NextOption ==
    /\ pc = "parsed"
    /\ argv < MaxOptions
    /\ argv' = argv + 1
    /\ ch' = "m"
    /\ optarg' \in MainMbcArgs
    /\ pc' = "getopt"
    /\ UNCHANGED <<optVars, cartridgeType, files, failed, seen, nbErrors,
                   message, errno, fileVars, locVars>>

\* lines 968, 1173-1180: getopt returns -1; argv += optind;
\* failed = nbErrors; the first file is processed.  No file name given is
\* the list of the one name "-".
EndOptions ==
    /\ pc = "parsed"
    /\ ch' = "-1"
    /\ files' \in FileLists
    /\ argv' = 1
    /\ failed' = (nbErrors # 0)
    /\ seen' = <<nbErrors # 0>>
    /\ Call(files'[1])
    /\ UNCHANGED <<optarg, optVars, cartridgeType, nbErrors, message, errno, out>>

\* lines 956-960, 1177-1183: processFilename returns nbErrors as a bool,
\* main folds it into failed and goes to the next name, or returns
Return ==
    /\ pc = "done"
    /\ failed' = (failed \/ nbErrors # 0)
    /\ seen' = Append(seen, nbErrors # 0)
    /\ IF argv < Len(files)
       THEN /\ argv' = argv + 1
            /\ Call(files[argv + 1])
            /\ UNCHANGED out
       ELSE /\ pc' = "exit"
            /\ UNCHANGED <<argv, fileVars, locVars>>
    /\ UNCHANGED <<ch, optarg, optVars, cartridgeType, files, nbErrors,
                   message, errno>>

\* between two options: no option fixed anything but the sums, the logo
\* and the padding, and the options before either all passed or failed
\* UINT8_MAX - 2 times
InitMain ==
    /\ fixSpec = FixAll
    /\ padValue = 255
    /\ model = DMG
    /\ title = NULL
    /\ titleLen = 0
    /\ gameID = NULL
    /\ gameIDLen = 0
    /\ newLicensee = NULL
    /\ newLicenseeLen = 0
    /\ sgb = FALSE
    /\ japanese = TRUE
    /\ cartridgeType = MBC_NONE
    /\ ramSize = UNSPECIFIED
    /\ oldLicensee = UNSPECIFIED
    /\ romVersion = UNSPECIFIED
    /\ nbErrors \in {0, UINT8_MAX - 2}
    /\ message = "none"
    /\ errno = "none"
    /\ image = <<>>
    /\ inplace = FALSE
    /\ disk = <<>>
    /\ offset = 0
    /\ out = <<>>
    /\ fileSize = 0
    /\ rom0 = <<>>
    /\ rom0Len = 0
    /\ globalSum = 0
    /\ romx = NULLBUF
    /\ nbBanks = 1
    /\ totalRomxLen = 0
    /\ len = 0
    /\ optarg = NULL
    /\ ch = NUL
    /\ files = <<>>
    /\ argv = 0
    /\ failed = FALSE
    /\ seen = <<>>
    /\ pc = "parsed"

\* one file's processing, reads and writes all complete
NextFile ==
    \/ Start(Reliable)
    \/ ReadRom0(Reliable)
    \/ EditHeader
    \/ HandleRomx
    \/ ReadRomxBank(Reliable)
    \/ Pad
    \/ FixHeaderSum
    \/ SumRom0
    \/ SumRomxBank(Reliable)
    \/ StoreSum
    \/ Rewind(Reliable)
    \/ WriteRom0(Reliable)
    \/ WriteRomx(Reliable)
    \/ SeekEnd(Reliable)
    \/ WritePadding(Reliable)
    \/ Return

NextMain ==
    \/ NextOption
    \/ OptM
    \/ EndOptions
    \/ NextFile

SpecMain == InitMain /\ [][NextMain]_vars

\* what processFilename returns for a file: it is too short, or has more
\* banks than the header can declare
FileFails(f) ==
    \/ Size(f.image) < HEADER_SIZE
    \/ NeededBanks(f.image) > MAX_BANKS

OptionErrors == {MBC_BAD, MBC_WRONG_FEATURES, MBC_BAD_RANGE}

\* C13, in every state: while file number argv is processed the files
\* before it have all been processed and their results recorded, and at
\* main's return so have all the files
ResultSoFar ==
    /\ pc \notin {"getopt", "parsed", "exit"} =>
          /\ argv \in DOMAIN files
          /\ Len(seen) = argv
          /\ \A i \in 1 .. argv - 1 : seen[i + 1] = FileFails(files[i])
          /\ failed = (\E i \in DOMAIN seen : seen[i])
    /\ pc = "exit" =>
          /\ Len(seen) = Len(files) + 1
          /\ \A i \in DOMAIN files : seen[i + 1] = FileFails(files[i])
          /\ failed = (\E i \in DOMAIN seen : seen[i])

\* C13, step by step
TallyStep ==
    /\ (pc = "getopt" /\ cartridgeType' \in OptionErrors) => nbErrors' # 0
    /\ (pc' \in {"getopt", "parsed"} /\ nbErrors # 0) => nbErrors' # 0
    /\ (pc = "parsed" /\ pc' = "start") =>
           (failed' = (nbErrors # 0) /\ seen' = <<failed'>> /\ argv' = 1)
    /\ (pc = "done" /\ pc' = "start") => argv' = argv + 1
    /\ pc' = "start" =>
           (image' = files'[argv'].image /\ inplace' = files'[argv'].inplace)
    /\ (pc = "start" /\ pc' # "start") => nbErrors' <= 1
    /\ (pc = "done" /\ pc' = "exit") => argv = Len(files)

\* C13: every file named is processed, in the order given, whatever
\* happened to the files before it; the error tally starts at zero for each
\* file and never wraps to zero once an error is recorded; main returns
\* nonzero exactly if an option or any file recorded an error
C13_EveryFile ==
    /\ []ResultSoFar
    /\ [][TallyStep]_vars

\* main returns after three files: an option and the first file failed,
\* the last file succeeded
C13_Witness ==
    /\ pc = "exit"
    /\ Len(files) = 3
    /\ seen[1] /\ seen[2] /\ ~seen[4]
    /\ failed

=============================================================================
